---- MODULE Spec2Model ----
(***************************************************************************)
(* A model of the account-assets query service (AccountsAssetsService:     *)
(* fetchAssetBalances, fetchAssetApproval, queryAssets and the record      *)
(* normaliser inside it) and of the numeric sanitizer (sanitizeNumbers).   *)
(*                                                                         *)
(* Three specifications share the module:                                  *)
(*   Spec      one call of the service against one chain snapshot, with    *)
(*             every accessor call resolving or rejecting in any order;    *)
(*   NormSpec  the normaliser of queryAssets applied to every raw record   *)
(*             shape;                                                      *)
(*   SanSpec   sanitizeNumbers applied once and then again to its result.  *)
(***************************************************************************)
EXTENDS Integers, Sequences, FiniteSets, TLC

VARIABLES
    chain,        \* the snapshot: pallet presence, storage maps, header
    pc,           \* where the running call is
    req,          \* the call's arguments
    historicApi,  \* "none" until api.at(hash) resolved, then "decorated"
    number,       \* the header number once getHeader resolved, else Undefined
    ids,          \* the asset ids handed to queryAssets
    pending,      \* indices of the per-asset lookups still in flight
    slots,        \* the result array of queryAssets' Promise.all
    joined,       \* the lookups of fetchAssetApproval's Promise.all in flight
    approval,     \* the raw approval once its lookup resolved
    rejected,     \* the accessor calls that rejected (history)
    result,       \* what the call returned or threw
    nraw,         \* NormSpec: the raw record handed to the normaliser
    nview,        \* NormSpec: the normalised fields
    npc,          \* NormSpec: "raw" before, "view" after normalising
    sdata,        \* SanSpec: the input of sanitizeNumbers
    sout,         \* SanSpec: sanitizeNumbers(sdata)
    sout2,        \* SanSpec: sanitizeNumbers(sout)
    spc           \* SanSpec: "start", "once", "twice" or "threw"

svcVars == <<chain, pc, req, historicApi, number, ids, pending, slots, joined,
             approval, rejected, result>>
normVars == <<nraw, nview, npc>>
sanVars == <<sdata, sout, sout2, spc>>
vars == <<svcVars, normVars, sanVars>>

(***************************************************************************)
(* JavaScript values.  A value is a record tagged by k; a field name       *)
(* always holds the same type.                                             *)
(***************************************************************************)
Undefined == [k |-> "undefined"]
Null == [k |-> "null"]
\* a primitive boolean (what the isSome getter of an Option returns)
Prim(b) == [k |-> "boolean", b |-> b]
\* a `bool` codec of @polkadot/types: an object wrapping a boolean
Bool(b) == [k |-> "bool", b |-> b]
\* a `u128` codec: an AbstractInt
U128(n) == [k |-> "u128", n |-> n]

\* JavaScript truthiness, as the `if (...)` tests of queryAssets apply it:
\* undefined, null and the primitive false are falsy, every object is truthy
\* (a bool codec is an object, whatever boolean it wraps).
TruthyByValue(v) ==
    IF v.k \in {"boolean", "bool"} THEN v.b ELSE v.k \notin {"undefined", "null"}

Truthy(v) ==
    IF v.k = "boolean" THEN v.b ELSE v.k \notin {"undefined", "null"}

(***************************************************************************)
(* Raw asset-account records, as historicApi.query.assets.account returns  *)
(* them.  isSome and value are what an Option exposes (value is what       *)
(* unwrap() gives); balance, isFrozen, sufficient, isSufficient are the     *)
(* properties found on the returned object itself.                         *)
(***************************************************************************)
Raw(isSome, value, balance, isFrozen, sufficient, isSufficient) ==
    [isSome |-> isSome, value |-> value, balance |-> balance,
     isFrozen |-> isFrozen, sufficient |-> sufficient,
     isSufficient |-> isSufficient]

\* PalletAssetsAssetAccount (runtime 9160 on): balance, isFrozen, reason
AssetAccount(balance, isFrozen, isSufficient) ==
    [balance |-> balance, isFrozen |-> isFrozen,
     reason |-> [isSufficient |-> isSufficient]]

\* Option<PalletAssetsAssetAccount>, populated
SomeAccount(acc) ==
    Raw(Prim(TRUE), acc, Undefined, Undefined, Undefined, Undefined)
\* Option<PalletAssetsAssetAccount>, empty
NoneAccount ==
    Raw(Prim(FALSE), Undefined, Undefined, Undefined, Undefined, Undefined)
\* PalletAssetsAssetBalance: a Struct with `sufficient`
FlatBalance(balance, isFrozen, sufficient) ==
    Raw(Undefined, Undefined, balance, isFrozen, sufficient, Undefined)
\* LegacyPalletAssetsAssetBalance: a Struct with `isSufficient`
LegacyBalance(balance, isFrozen, isSufficient) ==
    Raw(Undefined, Undefined, balance, isFrozen, Undefined, isSufficient)

Fields(balance, isFrozen, isSufficient) ==
    [balance |-> balance, isFrozen |-> isFrozen, isSufficient |-> isSufficient]

\* the else-if chain of queryAssets with its branches in another order
NormalizeLegacyFirst(raw) ==
    IF Truthy(raw.isSufficient)
    THEN Fields(raw.balance, raw.isFrozen, raw.isSufficient)
    ELSE IF Truthy(raw.sufficient)
    THEN Fields(raw.balance, raw.isFrozen, raw.sufficient)
    ELSE IF Truthy(raw.isSome)
    THEN Fields(raw.value.balance, raw.value.isFrozen,
                raw.value.reason.isSufficient)
    ELSE Fields(Null, Null, Null)

\* the chain with the `sufficient` branch leaving isSufficient unassigned
NormalizeFlatUnassigned(raw) ==
    IF Truthy(raw.isSome)
    THEN Fields(raw.value.balance, raw.value.isFrozen,
                raw.value.reason.isSufficient)
    ELSE IF Truthy(raw.sufficient)
    THEN Fields(raw.balance, raw.isFrozen, Null)
    ELSE IF Truthy(raw.isSufficient)
    THEN Fields(raw.balance, raw.isFrozen, raw.isSufficient)
    ELSE Fields(Null, Null, Null)

\* the normaliser: balance, isFrozen, isSufficient of one raw record
Normalize(raw) ==
    IF Truthy(raw.isSome)
    THEN Fields(raw.value.balance, raw.value.isFrozen,
                raw.value.reason.isSufficient)
    ELSE IF Truthy(raw.sufficient)
    THEN Fields(raw.balance, raw.isFrozen, raw.sufficient)
    ELSE IF Truthy(raw.isSufficient)
    THEN Fields(raw.balance, raw.isFrozen, raw.isSufficient)
    ELSE Fields(Null, Null, Null)

\* the object one callback of queryAssets returns
AssetView(assetId, raw) ==
    LET f == Normalize(raw)
    IN  [assetId |-> assetId, balance |-> f.balance, isFrozen |-> f.isFrozen,
         isSufficient |-> f.isSufficient]

(***************************************************************************)
(* The chain snapshot.                                                     *)
(***************************************************************************)
\* the longest asset-id list a request carries
MaxAssets == 3

AssetIds == {3, 7}
Accounts == {"alice", "bob"}
Hashes == {"0xabc"}
\* the three generations of the assets-account storage type
Forms == {"reason", "sufficient", "legacy"}
\* the assets whose accounts are self-sufficient
SufficientAssets == {3}

Range(s) == {s[i] : i \in DOMAIN s}
IsInjective(s) == \A i, j \in DOMAIN s : s[i] = s[j] => i = j

\* the enumerations keys() can give: each stored key once, in storage order
KeyOrders ==
    {s \in UNION {[1..n -> AssetIds] : n \in 0..Cardinality(AssetIds)} :
        IsInjective(s)}

AssetLists == UNION {[1..n -> AssetIds] : n \in 0..MaxAssets}

\* a snapshot whose runtime has no assets pallet
NoPallet ==
    [hasAssets |-> FALSE, form |-> "reason", keys |-> <<>>, accounts |-> {},
     approvals |-> {}, number |-> 1024]

\* the snapshots with the pallet: assets.asset holds `keys`; assets.account
\* and assets.approvals hold records of existing assets only
Snapshots ==
    {NoPallet} \cup
    {[hasAssets |-> TRUE, form |-> f, keys |-> ks, accounts |-> acc,
      approvals |-> apr, number |-> 1024] :
        f \in Forms, ks \in KeyOrders,
        acc \in SUBSET (AssetIds \X Accounts),
        apr \in SUBSET (AssetIds \X {"alice"} \X {"bob"})}

WellFormed(c) ==
    /\ \A p \in c.accounts : p[1] \in Range(c.keys)
    /\ \A p \in c.approvals : p[1] \in Range(c.keys)

\* the record stored under (assetId, address), in the snapshot's storage type
StoredBalance(assetId) == U128(100 * assetId)

\* historicApi.query.assets.account(assetId, address), resolved
AccountLookup(c, assetId, address) ==
    LET stored == <<assetId, address>> \in c.accounts
        bal == IF stored THEN StoredBalance(assetId) ELSE U128(0)
        suf == Bool(stored /\ assetId \in SufficientAssets)
    IN  IF c.form = "reason"
        THEN IF stored
             THEN SomeAccount(AssetAccount(bal, Bool(FALSE), suf))
             ELSE NoneAccount
        ELSE IF c.form = "sufficient"
        THEN FlatBalance(bal, Bool(FALSE), suf)
        ELSE LegacyBalance(bal, Bool(FALSE), suf)

\* historicApi.query.assets.approvals(assetId, address, delegate), resolved
ApprovalLookup(c, assetId, address, delegate) ==
    IF <<assetId, address, delegate>> \in c.approvals
    THEN [isSome |-> TRUE, value |-> [amount |-> U128(50), deposit |-> U128(1)]]
    ELSE [isSome |-> FALSE, value |-> Undefined]

\* historicApi.query.assets.asset.keys(), resolved: one StorageKey per asset
StorageKeys(c) == [i \in DOMAIN c.keys |-> [args |-> <<c.keys[i]>>]]

\* extractAssetIds losing the first key
ExtractAssetIdsTail(keys) ==
    [i \in 1..(Len(keys) - 1) |-> keys[i + 1].args[1]]

ExtractAssetIds(keys) == [i \in DOMAIN keys |-> keys[i].args[1]]

(***************************************************************************)
(* One call of the service.                                                *)
(***************************************************************************)
NoReq ==
    [op |-> "none", hash |-> "", address |-> "", assets |-> <<>>,
     assetId |-> 0, delegate |-> ""]

Pending == [status |-> "pending"]
Threw(e) == [status |-> "error", error |-> e]
Returned(body) == [status |-> "ok", body |-> body]

\* { hash, height: number.unwrap().toString(10) }
At(hash, num) == [hash |-> hash, height |-> ToString(num.n)]

\* Promise.all filling its result array in completion order
SettleInCompletionOrder(arr, i, v) ==
    LET free == {j \in DOMAIN arr : arr[j] = Undefined}
        first == CHOOSE j \in free : \A m \in free : j <= m
    IN  [arr EXCEPT ![first] = v]

\* Promise.all: the i-th promise's value goes to the i-th place
Settle(arr, i, v) == [arr EXCEPT ![i] = v]

SvcInit ==
    /\ chain \in {c \in Snapshots : WellFormed(c)}
    /\ pc = "idle"
    /\ req = NoReq
    /\ historicApi = "none"
    /\ number = Undefined
    /\ ids = <<>>
    /\ pending = {}
    /\ slots = <<>>
    /\ joined = {}
    /\ approval = Undefined
    /\ rejected = {}
    /\ result = Pending

\* fetchAssetBalances(hash, address, assets) up to `await api.at(hash)`
FetchAssetBalances(hash, address, assets) ==
    /\ pc = "idle"
    /\ pc' = "at"
    /\ req' = [op |-> "balances", hash |-> hash, address |-> address,
               assets |-> assets, assetId |-> 0, delegate |-> ""]
    /\ UNCHANGED <<normVars, sanVars, chain, historicApi, number, ids, pending, slots, joined,
                   approval, rejected, result>>

\* fetchAssetApproval(hash, address, assetId, delegate) up to `await api.at`
FetchAssetApproval(hash, address, assetId, delegate) ==
    /\ pc = "idle"
    /\ pc' = "at"
    /\ req' = [op |-> "approval", hash |-> hash, address |-> address,
               assets |-> <<>>, assetId |-> assetId, delegate |-> delegate]
    /\ UNCHANGED <<normVars, sanVars, chain, historicApi, number, ids, pending, slots, joined,
                   approval, rejected, result>>

\* api.at(hash) rejects: the call rejects with the accessor's error
AtRejected ==
    /\ pc = "at"
    /\ pc' = "done"
    /\ rejected' = rejected \cup {"at"}
    /\ result' = Threw("AccessorError")
    /\ UNCHANGED <<normVars, sanVars, chain, req, historicApi, number, ids, pending, slots,
                   joined, approval>>

\* api.at(hash) resolves and the pallet check is left out
AtResolvedUnchecked ==
    /\ pc = "at"
    /\ historicApi' = "decorated"
    /\ IF req.op = "balances"
       THEN /\ pc' = "header"
            /\ joined' = joined
       ELSE /\ pc' = "join"
            /\ joined' = {"getHeader", "approvals"}
    /\ UNCHANGED <<normVars, sanVars, chain, req, number, ids, pending, slots,
                   approval, rejected, result>>

\* api.at(hash) resolves; checkAssetsError; then the header lookup is issued
\* (fetchAssetBalances) or the header and approval lookups (fetchAssetApproval)
AtResolved ==
    /\ pc = "at"
    /\ historicApi' = "decorated"
    /\ IF ~chain.hasAssets
       THEN /\ pc' = "done"
            /\ result' = Threw("BadRequest")
            /\ joined' = joined
       ELSE IF req.op = "balances"
       THEN /\ pc' = "header"
            /\ UNCHANGED <<result, joined>>
       ELSE /\ pc' = "join"
            /\ joined' = {"getHeader", "approvals"}
            /\ result' = result
    /\ UNCHANGED <<normVars, sanVars, chain, req, number, ids, pending, slots, approval, rejected>>

\* what queryAssets starts with: one lookup per element of `assets`
StartQuery(assets) ==
    /\ ids' = assets
    /\ pending' = DOMAIN assets
    /\ slots' = [i \in DOMAIN assets |-> Undefined]
    /\ pc' = "query"

\* fetchAssetBalances: getHeader resolves
HeaderResolved ==
    /\ pc = "header"
    /\ number' = [k |-> "compact", n |-> chain.number]
    /\ IF Len(req.assets) = 0
       THEN /\ pc' = "keys"
            /\ UNCHANGED <<ids, pending, slots>>
       ELSE StartQuery(req.assets)
    /\ UNCHANGED <<normVars, sanVars, chain, req, historicApi, joined, approval, rejected, result>>

HeaderRejected ==
    /\ pc = "header"
    /\ pc' = "done"
    /\ rejected' = rejected \cup {"getHeader"}
    /\ result' = Threw("AccessorError")
    /\ UNCHANGED <<normVars, sanVars, chain, req, historicApi, number, ids, pending, slots,
                   joined, approval>>

\* assets.asset.keys() resolves; extractAssetIds; queryAssets starts
KeysResolved ==
    /\ pc = "keys"
    /\ StartQuery(ExtractAssetIds(StorageKeys(chain)))
    /\ UNCHANGED <<normVars, sanVars, chain, req, historicApi, number, joined, approval, rejected,
                   result>>

KeysRejected ==
    /\ pc = "keys"
    /\ pc' = "done"
    /\ rejected' = rejected \cup {"keys"}
    /\ result' = Threw("AccessorError")
    /\ UNCHANGED <<normVars, sanVars, chain, req, historicApi, number, ids, pending, slots,
                   joined, approval>>

\* the i-th callback of queryAssets: its lookup resolves and it normalises
LookupResolved(i) ==
    /\ pc = "query"
    /\ i \in pending
    /\ pending' = pending \ {i}
    /\ slots' = Settle(slots, i,
                       AssetView(ids[i], AccountLookup(chain, ids[i], req.address)))
    /\ UNCHANGED <<normVars, sanVars, chain, pc, req, historicApi, number, ids, joined, approval,
                   rejected, result>>

\* a callback that catches the rejection and returns a view of nulls
LookupRejectedAsNull(i) ==
    /\ pc = "query"
    /\ i \in pending
    /\ pending' = pending \ {i}
    /\ rejected' = rejected \cup {"account"}
    /\ slots' = Settle(slots, i, AssetView(ids[i], NoneAccount))
    /\ UNCHANGED <<normVars, sanVars, chain, pc, req, historicApi, number, ids, joined, approval,
                   result>>

\* the i-th lookup rejects: Promise.all rejects, and with it the call
LookupRejected(i) ==
    /\ pc = "query"
    /\ i \in pending
    /\ pc' = "done"
    /\ rejected' = rejected \cup {"account"}
    /\ result' = Threw("AccessorError")
    /\ UNCHANGED <<normVars, sanVars, chain, req, historicApi, number, ids, pending, slots,
                   joined, approval>>

\* every callback returned: Promise.all resolves, the envelope is built
QueryResolved ==
    /\ pc = "query"
    /\ pending = {}
    /\ pc' = "done"
    /\ result' = Returned([at |-> At(req.hash, number), assets |-> slots])
    /\ UNCHANGED <<normVars, sanVars, chain, req, historicApi, number, ids, pending, slots,
                   joined, approval, rejected>>

\* fetchAssetApproval: getHeader resolves
JoinHeaderResolved ==
    /\ pc = "join"
    /\ "getHeader" \in joined
    /\ joined' = joined \ {"getHeader"}
    /\ number' = [k |-> "compact", n |-> chain.number]
    /\ UNCHANGED <<normVars, sanVars, chain, pc, req, historicApi, ids, pending, slots, approval,
                   rejected, result>>

\* fetchAssetApproval: the approval lookup resolves
JoinApprovalResolved ==
    /\ pc = "join"
    /\ "approvals" \in joined
    /\ joined' = joined \ {"approvals"}
    /\ approval' = ApprovalLookup(chain, req.assetId, req.address, req.delegate)
    /\ UNCHANGED <<normVars, sanVars, chain, pc, req, historicApi, number, ids, pending, slots,
                   rejected, result>>

\* either lookup rejects: Promise.all rejects, and with it the call
JoinRejected(t) ==
    /\ pc = "join"
    /\ t \in joined
    /\ pc' = "done"
    /\ rejected' = rejected \cup {t}
    /\ result' = Threw("AccessorError")
    /\ UNCHANGED <<normVars, sanVars, chain, req, historicApi, number, ids, pending, slots,
                   joined, approval>>

\* both resolved: amount and deposit are read, the envelope is built
JoinResolved ==
    /\ pc = "join"
    /\ joined = {}
    /\ pc' = "done"
    /\ result' = Returned(
          [at |-> At(req.hash, number),
           amount |-> IF approval.isSome THEN approval.value.amount ELSE Null,
           deposit |-> IF approval.isSome THEN approval.value.deposit ELSE Null])
    /\ UNCHANGED <<normVars, sanVars, chain, req, historicApi, number, ids, pending, slots,
                   joined, approval, rejected>>

NormIdle == nraw = NoneAccount /\ nview = Fields(Null, Null, Null) /\ npc = "raw"
SanIdle == sdata = Undefined /\ sout = Undefined /\ sout2 = Undefined /\ spc = "start"

Init == SvcInit /\ NormIdle /\ SanIdle

Next ==
    \/ \E h \in Hashes, a \in Accounts, l \in AssetLists :
           FetchAssetBalances(h, a, l)
    \/ \E h \in Hashes, a \in Accounts, i \in AssetIds, d \in Accounts :
           FetchAssetApproval(h, a, i, d)
    \/ AtRejected
    \/ AtResolved
    \/ HeaderResolved
    \/ HeaderRejected
    \/ KeysResolved
    \/ KeysRejected
    \/ \E i \in pending : LookupResolved(i)
    \/ \E i \in pending : LookupRejected(i)
    \/ QueryResolved
    \/ JoinHeaderResolved
    \/ JoinApprovalResolved
    \/ \E t \in joined : JoinRejected(t)
    \/ JoinResolved

Spec == Init /\ [][Next]_vars

(***************************************************************************)
(* NormSpec: the normaliser applied to every raw record shape.             *)
(***************************************************************************)
Balances == {U128(0), U128(100)}
Bools == {Bool(TRUE), Bool(FALSE)}
MaybeBools == {Undefined} \cup Bools

\* form 1: a populated Option; the wrapper may carry stray top-level fields
ReasonShapes ==
    {Raw(Prim(TRUE), AssetAccount(b, f, s), tb, Undefined, ts, ti) :
        b \in Balances, f \in Bools, s \in Bools,
        tb \in {Undefined, U128(1)}, ts \in MaybeBools, ti \in MaybeBools}
\* form 2: a Struct with `sufficient`; it may carry a stray `isSufficient`
FlatShapes ==
    {Raw(Undefined, Undefined, b, f, s, ti) :
        b \in Balances, f \in Bools, s \in Bools, ti \in MaybeBools}
\* form 3: a Struct with `isSufficient` and no `sufficient`
LegacyShapes ==
    {LegacyBalance(b, f, s) : b \in Balances, f \in Bools, s \in Bools}
RawShapes == ReasonShapes \cup FlatShapes \cup LegacyShapes \cup {NoneAccount}

NormInit ==
    /\ nraw \in RawShapes
    /\ nview = Fields(Null, Null, Null)
    /\ npc = "raw"

\* lines 163-184 of queryAssets on nraw
NormalizeRecord ==
    /\ npc = "raw"
    /\ nview' = Normalize(nraw)
    /\ npc' = "view"
    /\ UNCHANGED <<nraw, svcVars, sanVars>>

SvcIdle ==
    /\ chain = NoPallet
    /\ pc = "idle"
    /\ req = NoReq
    /\ historicApi = "none"
    /\ number = Undefined
    /\ ids = <<>>
    /\ pending = {}
    /\ slots = <<>>
    /\ joined = {}
    /\ approval = Undefined
    /\ rejected = {}
    /\ result = Pending

NormSpecInit == NormInit /\ SvcIdle /\ SanIdle
NormNext == NormalizeRecord
NormSpec == NormSpecInit /\ [][NormNext]_vars

Populated(v) == v.k \notin {"null", "undefined"}
AllPopulated(f) ==
    Populated(f.balance) /\ Populated(f.isFrozen) /\ Populated(f.isSufficient)
AllNull(f) == f.balance = Null /\ f.isFrozen = Null /\ f.isSufficient = Null

\* C4: whatever the raw record's shape (populated Option with reason, Struct
\* with `sufficient`, legacy Struct with `isSufficient`, empty Option), the
\* normalised balance, isFrozen and isSufficient are all three populated or
\* all three null, never a mix.
C4_AllOrNothing ==
    npc = "view" => (AllPopulated(nview) \/ AllNull(nview))

\* a Struct with `sufficient` wrapping false was normalised to three values
C4_Witness ==
    /\ npc = "view"
    /\ nraw \in FlatShapes
    /\ nraw.sufficient = Bool(FALSE)
    /\ AllPopulated(nview)

\* C8: the first matching form wins.  A populated Option whose
\* reason.isSufficient is true gives isSufficient = true, balance and
\* isFrozen from the unwrapped structure, whatever `sufficient` or
\* `isSufficient` the wrapper itself carries; a Struct with `sufficient`
\* gives that field whatever `isSufficient` it also carries.
C8_FirstFormWins ==
    npc = "view" =>
        /\ (nraw \in ReasonShapes /\ nraw.value.reason.isSufficient = Bool(TRUE))
            => nview = Fields(nraw.value.balance, nraw.value.isFrozen, Bool(TRUE))
        /\ nraw \in FlatShapes
            => nview = Fields(nraw.balance, nraw.isFrozen, nraw.sufficient)

\* a populated Option with reason.isSufficient true and a stray legacy
\* isSufficient of false on the wrapper was normalised
C8_Witness ==
    /\ npc = "view"
    /\ nraw \in ReasonShapes
    /\ nraw.value.reason.isSufficient = Bool(TRUE)
    /\ nraw.isSufficient = Bool(FALSE)
    /\ nraw.balance = U128(1)
    /\ nview.isSufficient = Bool(TRUE)

\* C9: the three fields are null only when no record exists.  A record in
\* any of the three shapes gives three populated fields read from it; a
\* legacy Struct does so whatever boolean its `isSufficient` wraps.
C9_NullOnlyWhenAbsent ==
    npc = "view" =>
        /\ AllNull(nview) => nraw = NoneAccount
        /\ nraw \in ReasonShapes =>
              nview = Fields(nraw.value.balance, nraw.value.isFrozen,
                             nraw.value.reason.isSufficient)
        /\ nraw \in LegacyShapes =>
              nview = Fields(nraw.balance, nraw.isFrozen, nraw.isSufficient)
        /\ nraw # NoneAccount => AllPopulated(nview)

\* a legacy Struct whose isSufficient wraps false was normalised
C9_Witness ==
    /\ npc = "view"
    /\ nraw \in LegacyShapes
    /\ nraw.isSufficient = Bool(FALSE)
    /\ nview.isSufficient = Bool(FALSE)
    /\ nview.balance = nraw.balance

(***************************************************************************)
(* Claims about the service, checked under Spec.                           *)
(***************************************************************************)
Done == pc = "done"
ReturnedOk == Done /\ result.status = "ok"
NoEnvelope == DOMAIN result = {"status", "error"}
ViewIds(views) == [i \in DOMAIN views |-> views[i].assetId]
IsStored(assetId, address) == <<assetId, address>> \in chain.accounts

\* C1: once the snapshot is in hand and its runtime has no assets pallet,
\* the call (fetchAssetBalances or fetchAssetApproval, whatever its
\* arguments) has ended with the BadRequest error, carries no envelope, and
\* fetched nothing.
C1_NoPalletIsBadRequest ==
    (historicApi = "decorated" /\ ~chain.hasAssets) =>
        /\ Done
        /\ result = Threw("BadRequest")
        /\ NoEnvelope
        /\ number = Undefined /\ approval = Undefined
        /\ ids = <<>> /\ slots = <<>>

\* fetchAssetBalances with a full id list ended with BadRequest
C1_Witness ==
    /\ ~chain.hasAssets
    /\ req.op = "balances"
    /\ Len(req.assets) = MaxAssets
    /\ result = Threw("BadRequest")

\* C2: a successful fetchAssetBalances with a non-empty id list returns as
\* many views as ids were requested, the i-th carrying the i-th requested
\* id: order kept, duplicates kept, in whatever order the lookups resolved.
C2_InputOrderKept ==
    (ReturnedOk /\ req.op = "balances" /\ Len(req.assets) > 0) =>
        /\ Len(result.body.assets) = Len(req.assets)
        /\ ViewIds(result.body.assets) = req.assets

\* the request [3, 7, 3] returned three views
C2_Witness ==
    /\ ReturnedOk
    /\ req.op = "balances"
    /\ req.assets = <<3, 7, 3>>
    /\ Len(result.body.assets) = 3

CompleteBalances(body) ==
    /\ DOMAIN body = {"at", "assets"}
    /\ body.at = [hash |-> req.hash, height |-> ToString(chain.number)]
    /\ Len(body.assets) = Len(ids)
    /\ \A i \in DOMAIN ids :
          /\ body.assets[i] =
                AssetView(ids[i], AccountLookup(chain, ids[i], req.address))
          /\ body.assets[i].balance = Null => ~IsStored(ids[i], req.address)

CompleteApproval(body) ==
    /\ DOMAIN body = {"at", "amount", "deposit"}
    /\ body.at = [hash |-> req.hash, height |-> ToString(chain.number)]
    /\ IF <<req.assetId, req.address, req.delegate>> \in chain.approvals
       THEN body.amount = U128(50) /\ body.deposit = U128(1)
       ELSE body.amount = Null /\ body.deposit = Null

\* C5: no partial success.  Nothing is returned before the call ends; it
\* ends either with a whole envelope (`at` and one view per queried asset,
\* nulls only where no record is stored) and no accessor call rejected, or
\* with an error and no envelope; a rejected header, keys, per-asset or
\* approval lookup always ends it with the error.
C5_AllOrNothing ==
    /\ ~Done => (result = Pending /\ rejected = {})
    /\ Done =>
          \/ /\ result.status = "ok"
             /\ rejected = {}
             /\ IF req.op = "balances"
                THEN CompleteBalances(result.body)
                ELSE CompleteApproval(result.body)
          \/ /\ result.status = "error"
             /\ NoEnvelope
    /\ rejected # {} => (Done /\ result = Threw("AccessorError"))

\* one per-asset lookup had resolved when another rejected: the call failed
C5_Witness ==
    /\ Done
    /\ rejected = {"account"}
    /\ result = Threw("AccessorError")
    /\ \E i \in DOMAIN slots : slots[i] # Undefined

(***************************************************************************)
(* sanitizeNumbers.  Besides the leaves above, a value is a string, a      *)
(* number, or an object: isArray tells whether Array.isArray holds (and    *)
(* with it whether the object has map), elems are an array's elements,     *)
(* props are the properties data[key] finds, json is <<j>> when the object *)
(* has a toJSON method returning j, and <<>> when it has none.             *)
(***************************************************************************)
\* the longest array among the sanitizer's inputs
MaxElems == 1

Num(n) == [k |-> "number", n |-> n]
Str(s) == [k |-> "string", s |-> s]
Object(isArray, elems, props, json) ==
    [k |-> "object", isArray |-> isArray, elems |-> elems, props |-> props,
     json |-> json]
Arr(elems) == Object(TRUE, elems, <<>>, <<>>)
Obj(props) == Object(FALSE, <<>>, props, <<>>)
WithToJSON(o, j) == [o EXCEPT !.json = <<j>>]
\* what a call that raised `data.map is not a function` leaves
Thrown == [k |-> "TypeError"]

\* data instanceof AbstractInt
IsAbstractInt(v) == v.k = "u128"
\* data instanceof Object
IsObject(v) == v.k \in {"object", "u128"}
\* Array.isArray(v)
IsArray(v) == v.k = "object" /\ v.isArray
\* typeof data.toJSON === "function"
HasToJSON(v) == v.k = "object" /\ Len(v.json) = 1
\* data[key]
Get(data, key) ==
    IF key \in DOMAIN data.props THEN data.props[key] ELSE Undefined
\* Object.keys of a mapping
Keys(v) == DOMAIN v.props
\* x.toString(10) of an AbstractInt
ToString10(x) == Str(ToString(x.n))

Raised(f) == \E x \in DOMAIN f : f[x] = Thrown

RECURSIVE SanitizeNumbers(_)

\* data.map(sanitizeNumbers); an object that is no array has no map
MapSanitize(data) ==
    IF ~data.isArray
    THEN Thrown
    ELSE LET r == [i \in DOMAIN data.elems |-> SanitizeNumbers(data.elems[i])]
         IN  IF Raised(r) THEN Thrown ELSE Arr(r)

\* the loop over Object.keys(json) copying data[key] as it is
CopyJsonKeys(data, json) ==
    Obj([key \in Keys(json) |-> Get(data, key)])

\* the loop over Object.keys(json) recursing into json[key]
SanitizeJsonValues(data, json) ==
    LET r == [key \in Keys(json) |-> SanitizeNumbers(json.props[key])]
    IN  IF Raised(r) THEN Thrown ELSE Obj(r)

\* for (const key of Object.keys(json)) obj[key] = sanitizeNumbers(data[key])
SanitizeJsonKeys(data, json) ==
    LET r == [key \in Keys(json) |-> SanitizeNumbers(Get(data, key))]
    IN  IF Raised(r) THEN Thrown ELSE Obj(r)

\* for (const key of Object.keys(data)) obj[key] = sanitizeNumbers(data[key])
SanitizeOwnKeys(data) ==
    LET r == [key \in Keys(data) |-> SanitizeNumbers(data.props[key])]
    IN  IF Raised(r) THEN Thrown ELSE Obj(r)

SanitizeNumbers(data) ==
    IF IsAbstractInt(data)
    THEN ToString10(data)
    ELSE IF IsObject(data)
    THEN IF IsAbstractInt(Get(data, "raw"))
         THEN ToString10(Get(data, "raw"))
         ELSE IF HasToJSON(data)
         THEN LET json == data.json[1]
              IN  IF IsArray(json)
                  THEN MapSanitize(data)
                  ELSE IF IsObject(json)
                  THEN SanitizeJsonKeys(data, json)
                  ELSE json
         ELSE IF IsArray(data)
         THEN MapSanitize(data)
         ELSE SanitizeOwnKeys(data)
    ELSE data

(***************************************************************************)
(* SanSpec: sanitizeNumbers applied to an input, then to its own result.   *)
(***************************************************************************)
PropKeys == {"a", "raw"}
Leaves == {U128(7), Num(7), Str("7"), Null}

SeqsUpTo(C, n) == UNION {[1..m -> C] : m \in 0..n}
ArrsOf(C) == {Arr(s) : s \in SeqsUpTo(C, MaxElems)}
ObjsOf(C) == {Obj(f) : f \in UNION {[K -> C] : K \in SUBSET PropKeys}}

\* what toJSON may return: an array, a mapping or a scalar of JSON values
JsonResults ==
    {Arr(<<Num(7)>>), Obj([key \in {"a"} |-> Num(7)]),
     Obj([key \in PropKeys |-> Num(7)]), Str("0x07"), Num(7)}

\* objects with a toJSON method, whatever they are themselves
SersOf(C) ==
    {WithToJSON(o, j) : o \in ArrsOf(C) \cup ObjsOf(C), j \in JsonResults}

Level1 == Leaves \cup ArrsOf(Leaves) \cup ObjsOf(Leaves) \cup SersOf(Leaves)
Nested ==
    {U128(7), Null} \cup ArrsOf({U128(7)}) \cup ObjsOf({U128(7)})
        \cup SersOf({U128(7)})
Level2 == ArrsOf(Nested) \cup ObjsOf(Nested) \cup SersOf(Nested)
Inputs == Level1 \cup Level2

SanInit ==
    /\ sdata \in Inputs
    /\ sout = Undefined
    /\ sout2 = Undefined
    /\ spc = "start"

\* sanitizeNumbers(sdata)
Sanitize ==
    /\ spc = "start"
    /\ sout' = SanitizeNumbers(sdata)
    /\ spc' = IF sout' = Thrown THEN "threw" ELSE "once"
    /\ UNCHANGED <<sdata, sout2, svcVars, normVars>>

\* sanitizeNumbers of the value the first call returned
SanitizeAgain ==
    /\ spc = "once"
    /\ sout2' = SanitizeNumbers(sout)
    /\ spc' = IF sout2' = Thrown THEN "threw" ELSE "twice"
    /\ UNCHANGED <<sdata, sout, svcVars, normVars>>

SanSpecInit == SanInit /\ SvcIdle /\ NormIdle
SanNext == Sanitize \/ SanitizeAgain
SanSpec == SanSpecInit /\ [][SanNext]_vars

\* C6: sanitizeNumbers is idempotent: sanitizing a value sanitizeNumbers
\* returned returns it unchanged (and does not raise).
C6_Idempotent ==
    /\ spc = "twice" => sout2 = sout
    /\ spc = "threw" => sout2 = Undefined

\* an object with toJSON, holding a nested big integer, was sanitized twice
C6_Witness ==
    /\ spc = "twice"
    /\ HasToJSON(sdata)
    /\ sdata \in Level2
    /\ sout # sdata
    /\ sout.k = "object"
    /\ \E key \in Keys(sout) : sout.props[key].k = "object"

\* C7 as stated: for an object with toJSON the result is the sanitized
\* serialization result, keys and values alike.
C7_RecursesIntoJson ==
    (spc = "once" /\ HasToJSON(sdata) /\ ~IsAbstractInt(Get(sdata, "raw"))) =>
        sout = SanitizeNumbers(sdata.json[1])

\* C7 amended: for an object with toJSON that wraps no big integer under
\* `raw`, the serialization result decides the shape and the original
\* object supplies the values: a mapping result gives exactly the result's
\* keys, each with the sanitized value of the original's property of that
\* name (undefined when it has none); an array result gives the original's
\* own elements sanitized, in order, when the original is an array; a
\* scalar result is returned as it is.
C7_ShapeFromJsonValuesFromData ==
    (spc = "once" /\ HasToJSON(sdata) /\ ~IsAbstractInt(Get(sdata, "raw"))) =>
        LET json == sdata.json[1]
        IN  IF IsArray(json)
            THEN /\ IsArray(sdata)
                 /\ IsArray(sout)
                 /\ Len(sout.elems) = Len(sdata.elems)
                 /\ \A i \in DOMAIN sdata.elems :
                       sout.elems[i] = SanitizeNumbers(sdata.elems[i])
            ELSE IF IsObject(json)
            THEN /\ sout.k = "object" /\ ~sout.isArray /\ ~HasToJSON(sout)
                 /\ Keys(sout) = Keys(json)
                 /\ \A key \in Keys(json) :
                       sout.props[key] = SanitizeNumbers(Get(sdata, key))
            ELSE sout = json

\* an object holding a big integer under "a", whose toJSON gives a mapping
\* with the number 7 under "a", was sanitized to the string under "a"
C7_Witness ==
    /\ spc = "once"
    /\ HasToJSON(sdata)
    /\ ~sdata.isArray
    /\ Get(sdata, "a") = U128(7)
    /\ sdata.json[1] = Obj([key \in {"a"} |-> Num(7)])
    /\ sout = Obj([key \in {"a"} |-> Str("7")])

\* C10: sanitizeNumbers is total: it never raises.
C10_NeverRaises == spc # "threw"

====
